---- MODULE Spec2Model ----
(***************************************************************************)
(* Model of the real-time process monitor of sup_mtracker                  *)
(* (src/src/realtime_monitor.rs): the engine RealtimeProcessMonitor with   *)
(* its run flag, its shared ProcessMonitorState, the background loops      *)
(* spawned by start(), the per-tick check_process and the reader           *)
(* get_state().                                                            *)
(*                                                                         *)
(* Option<T> is encoded as a sequence: None is <<>>, Some(x) is <<x>>.     *)
(* The loop tasks are anonymous (start() drops their JoinHandle), so they   *)
(* are kept as a bag of task records.                                      *)
(***************************************************************************)
EXTENDS Integers, Sequences, FiniteSets, Bags, TLC

\* ------------------------------------------------------------------ bounds
MaxLoops == 2        \* loop tasks alive (or about to be spawned) at a time
MaxClock == 3        \* interval wake-ups in one behaviour
MaxMissed == 2       \* interval deadlines that elapse during one check

Callers == {1, 2}    \* threads calling start() / stop()

None == <<>>
Some(x) == <<x>>

\* ------------------------------------------------------------ data model
\* MediaSessionInfo, the fields has_metadata_changed reads plus playback_status
Session(t, st) ==
    [title |-> Some(t), artist |-> None, album |-> None, playback_status |-> Some(st)]

\* ProcessMetadata restricted to pid and the fields read by the monitor
Metadata(p, mem, sessions) ==
    [pid |-> p, window_title |-> None, working_set_size |-> mem,
     handle_count |-> 0, windows |-> <<>>, media_sessions |-> sessions]

\* the snapshots the collaborators return in this model: the scenario of the
\* specification (pid 100 at 50MB, then 55MB), the same compared fields with
\* another playback status, and another pid with equal compared fields
Snapshots ==
    { Metadata(100, 50, <<Session("song", "Playing")>>),
      Metadata(100, 55, <<Session("song", "Playing")>>),
      Metadata(100, 50, <<Session("song", "Paused")>>),
      Metadata(200, 50, <<Session("song", "Playing")>>) }

\* titles of the active content window (get_active_browser_tab keeps only
\* windows with a non-empty title)
TabTitles == {"A", "B"}
WindowInfo(t) == [window_title |-> t]
TabResults == {None} \cup { Some(WindowInfo(t)) : t \in TabTitles }

\* anyhow::Result<T>: Ok(x) carries x, Err carries nothing the monitor reads
Ok(x) == [ok |-> TRUE, val |-> <<x>>]
Err == [ok |-> FALSE, val |-> <<>>]

\* ProcessScanner::get_process_metadata on the results of its collaborators:
\* `collect_all_metadata(pid, &options)?`, then, when media_control is
\* requested, the media worker joined with `.join().unwrap()?`
get_process_metadata(base, media, options) ==
    IF ~base.ok THEN Err
    ELSE IF options.media_control
    THEN IF ~media.ok THEN Err
         ELSE Ok([base.val[1] EXCEPT !.media_sessions = media.val[1]])
    ELSE Ok(base.val[1])

\* ProcessScanner::monitor_process_by_name on the result of
\* find_pid_by_executable_name and of the two sources
monitor_process_by_name(resolved, base, media, options) ==
    IF ~resolved.ok THEN Err
    ELSE IF resolved.val[1] = None THEN Ok(None)
    ELSE LET metadata == get_process_metadata(base, media, options)
         IN IF metadata.ok THEN Ok(Some(metadata.val[1])) ELSE Err

\* `if let Ok(Ok(Some(metadata))) = metadata_result`
IsFound(result) == result.ok /\ result.val[1] # None

\* what the Metadata Source alone returns for a snapshot: no media session
BaseOf(m) == [m EXCEPT !.media_sessions = <<>>]

\* the collaborators' results behind each way of not getting a snapshot:
\* no process of that name; the process snapshot of the resolver cannot be
\* created; the process cannot be opened; the process is opened and the
\* Media Source returns an error
\* (which process it is makes no difference to these results)
Causes == {"notfound", "resolvefailed", "failed", "mediafailed"}
AnySnapshot == CHOOSE m \in Snapshots : TRUE
ResolvedFor(k) ==
    IF k = "notfound" THEN Ok(None)
    ELSE IF k = "resolvefailed" THEN Err
    ELSE Ok(Some(AnySnapshot.pid))
BaseFor(k) == IF k = "failed" THEN Err ELSE Ok(BaseOf(AnySnapshot))
MediaFor(k) == IF k = "mediafailed" THEN Err ELSE Ok(AnySnapshot.media_sessions)

\* Instant::now(): the monitor stores instants and never reads or compares
\* them, so one value stands for all of them; the writes of last_update
\* are recorded by the `stamped` field of the check summaries
Instant_now == "instant"

\* ProcessMonitorState::default()
DefaultState ==
    [last_metadata |-> None, last_active_tab |-> None,
     last_update |-> None, is_active |-> FALSE]

\* <MonitorConfig as Clone>::clone : the callback is not cloned
MonitorConfigClone(c) == [c EXCEPT !.on_data_change = FALSE]

\* a comparison that looks at the title only
SessionDiffersTitleOnly(a, b) == a.title # b.title

\* a comparison that skips the fields absent from the last session
SessionDiffersOneWay(a, b) ==
    \/ a.title # b.title
    \/ (a.artist # None /\ a.artist # b.artist)
    \/ (a.album # None /\ a.album # b.album)

\* has_metadata_changed(last, current)
SessionDiffers(a, b) ==
    \/ a.title # b.title
    \/ a.artist # b.artist
    \/ a.album # b.album

MinLen(s, t) == IF Len(s) < Len(t) THEN Len(s) ELSE Len(t)

has_metadata_changed(last, current) ==
    IF \/ last.window_title # current.window_title
       \/ last.working_set_size # current.working_set_size
       \/ last.handle_count # current.handle_count
       \/ Len(last.windows) # Len(current.windows)
    THEN TRUE
    ELSE IF Len(last.media_sessions) # Len(current.media_sessions)
    THEN TRUE
    ELSE \E i \in 1..MinLen(last.media_sessions, current.media_sessions) :
            SessionDiffers(last.media_sessions[i], current.media_sessions[i])

\* the snapshots has_metadata_changed is called on when it is checked alone:
\* every combination of two values of each field it compares, of pid, of a
\* window list (empty, or one window of either title) and of a media list
DiffSessions ==
    { [title |-> Some("song"), artist |-> None, album |-> None,
       playback_status |-> Some("Playing")],
      [title |-> Some("tune"), artist |-> None, album |-> None,
       playback_status |-> Some("Playing")],
      [title |-> Some("song"), artist |-> Some("band"), album |-> None,
       playback_status |-> Some("Playing")],
      [title |-> Some("song"), artist |-> None, album |-> Some("disc"),
       playback_status |-> Some("Playing")],
      [title |-> Some("song"), artist |-> None, album |-> None,
       playback_status |-> Some("Paused")] }

DiffMediaLists ==
    {<<>>} \cup { <<s>> : s \in DiffSessions }
           \cup { <<Session("song", "Playing"), s>> : s \in DiffSessions }

DiffWindowLists == {<<>>} \cup { <<WindowInfo(t)>> : t \in TabTitles }

DiffSnapshots ==
    [pid : {100, 200}, window_title : {None, Some("w")},
     working_set_size : {50, 55}, handle_count : {0, 1},
     windows : DiffWindowLists, media_sessions : DiffMediaLists]

\* ------------------------------------------------------------------ state
VARIABLES
    config,      \* MonitorConfig of the engine: metadata_options.window_info and
                 \* .media_control, and whether on_data_change is Some (the
                 \* engine is built with a callback)
    state,       \* Arc<Mutex<ProcessMonitorState>> : the protected value
    stateLock,   \* holder of the state mutex: None, Some("loop"), Some("reader")
    is_running,  \* Arc<Mutex<bool>> : the protected value
    runLock,     \* holder of the run-flag mutex: None or Some(caller)
    caller,      \* position of each caller thread inside start()
    loop,        \* bag of the live loop tasks: position and locals of check_process
    abandoned,   \* whether some collection worker, left behind by a check that
                 \* timed out, is still running and can still return
    now,         \* number of interval wake-ups so far
    rd,          \* position of the reader thread inside get_state()
    ret,         \* event: the value a get_state() call returned in the last step
    committed,   \* history: the state as it stood at the last check boundary
    obs,         \* history: what the guarded check that completed last observed
    diff,        \* one call of has_metadata_changed: its arguments and results
    work,        \* one collection worker of check_process, followed through
                 \* monitor_process_by_name and get_process_metadata
    done         \* event: summary of the guarded check that completed in the last
                 \* step (kind "late": a result arrived after its check timed out)

vars == <<config, state, stateLock, is_running, runLock, caller, loop,
          abandoned, now, rd, ret, committed, obs, diff, work, done>>

\* a loop task at `interval.tick().await`, with its interval: `missed` is
\* the number of deadlines of the interval that elapsed since the last
\* tick() returned, `backlog` the number of earlier deadlines that were
\* still undelivered when it returned; `first` tells that the task has not
\* completed a check yet
WaitLoop ==
    [pc |-> "wait", metadata |-> None, has_changes |-> FALSE,
     replaced |-> FALSE, stamped |-> FALSE, cb |-> 0, cbAfter |-> FALSE,
     missed |-> 0, backlog |-> 0, first |-> FALSE]

\* a loop task as start() spawns it, told apart from the tasks that have
\* completed a check
NewLoop == [WaitLoop EXCEPT !.first = TRUE]

\* no observation: the last check, if any, neither found the process nor
\* resolved it as not found
NoObs == [kind |-> "none", meta |-> None, tab |-> None, locked |-> FALSE]

NoCheck ==
    [kind |-> "none", meta |-> None, tab |-> None, locked |-> FALSE,
     changed |-> FALSE, replaced |-> FALSE, stamped |-> FALSE, cb |-> 0,
     cbAfter |-> FALSE, mutated |-> FALSE, active |-> FALSE, err |-> FALSE,
     first |-> FALSE,
     wasActive |-> FALSE, last |-> None, prev |-> NoObs]

NoReturn == [how |-> "none", value |-> DefaultState]

\* no call of has_metadata_changed under observation
NoDiff == [last |-> None, current |-> None, result |-> None]

\* no collection worker under observation
NoWork ==
    [pc |-> "none", resolved |-> Err, base |-> Err, media |-> Err,
     metadata |-> None, thread |-> "none", queried |-> FALSE,
     result |-> None, check |-> "none"]

\* RealtimeProcessMonitor::new, for a given configuration
NewEngine ==
    /\ state = DefaultState
    /\ stateLock = None
    /\ is_running = FALSE
    /\ runLock = None
    /\ caller = [c \in Callers |-> "idle"]
    /\ loop = EmptyBag
    /\ abandoned = FALSE
    /\ now = 0
    /\ rd = "idle"
    /\ ret = NoReturn
    /\ committed = DefaultState
    /\ obs = NoObs
    /\ done = NoCheck

\* the engines of the model: media sessions requested (the default of
\* MetadataOptions), window info requested or not, a change callback given,
\* check_interval 3 (the default) or 0
InitEngine ==
    /\ config \in [window_info : BOOLEAN, media_control : {TRUE},
                    on_data_change : {TRUE}, check_interval : {0, 3}]
    /\ NewEngine

Init == InitEngine /\ diff = NoDiff /\ work = NoWork

\* ---------------------------------------------------------------- helpers
\* the config captured by the loop task: start() passes self.config.clone()
LoopConfig == MonitorConfigClone(config)

\* a run flag that is read and written without its mutex
RunLockIgnored == TRUE

\* Mutex::lock on is_running succeeds only when nobody holds it
RunLockFree == runLock = None

\* a loop that never leaves on a false run flag
NeverBreak(running) == FALSE

\* an interval that accepts a zero period
IntervalNeverPanics(period) == FALSE

\* tokio::time::interval(period) panics when the period is zero
IntervalPanics(period) == period = 0

\* a start() that begins every run from an empty state
StartResets(s) == DefaultState

\* start() clones the Arc of the state and writes nothing to it
StartKeeps(s) == s

\* a loop that tests the run flag before its first check only
BreakOnFirstTick(running) == ~running /\ now = 0

\* `if !*running { break; }`
ShouldBreak(running) == ~running

\* a check_process awaited without tokio::time::timeout
NoTimeout(pc) == FALSE

\* a timeout that can cut the check at any line
TimeoutAnywhere(pc) == TRUE

\* tokio::time::timeout can end check_process only at its one await point,
\* the join of the collection worker
TimeoutPoint(pc) == pc = "collect"

\* a loop that gives up after a check that timed out or failed
EndsOnError(kind) == kind \in {"timeout", "failed"}

\* a check_process that hands the failure of its worker to its caller
ReturnsErrOnFailure(kind) == kind \in {"resolvefailed", "failed", "mediafailed"}

\* check_process has no `?` and no Err(..): its three returns are
\* Ok(false), Ok(false) and Ok(has_changes)
ReturnsErr(kind) == FALSE

\* `match check_result`: no arm breaks out of the loop
EndsLoop(kind) == FALSE

\* state.try_lock() inside check_process
CheckTryLock == stateLock = None

\* a check that takes the state lock with a blocking lock()
CheckLockWaits == stateLock = None

\* try_lock returns at once, whether or not the lock is held
CheckLockReturns == TRUE

\* a get_state that clones the state without holding the guard
GetStateNoLock == TRUE

\* self.state.try_lock() inside get_state
GetStateTryLock == stateLock = None

\* a get_state that reads through the held lock
ContendedReadDirty(s) == s

\* the Err(_) arm of get_state: an empty state is returned
ContendedRead(s) == DefaultState

\* a first found tick that counts as neither a new process nor a change
WhenNoLastFalse == FALSE

\* `.unwrap_or(true)`: is_new_process and metadata_changed when
\* last_metadata is None
WhenNoLast == TRUE

\* a check that replaces last_metadata on every found tick
AlwaysReplace(is_new_process, metadata_changed) == TRUE

\* a check that replaces last_metadata on a diff only, whatever the pid
ReplaceOnDiffOnly(is_new_process, metadata_changed) == metadata_changed

\* `if is_new_process || metadata_changed`
ShouldReplace(is_new_process, metadata_changed) == is_new_process \/ metadata_changed

\* a not-found branch that never deactivates
NeverDeactivate(active) == FALSE

\* a not-found branch that deactivates and reports on every check
AlwaysDeactivate(active) == TRUE

\* `if current_state.is_active` in the else branch of check_process
ShouldDeactivate(active) == active

\* an active-window tracking that records the first content window only
TabChangedFromNone(last, t) == t # None /\ last = None

\* `if let Ok(Some(active_tab))` and tab_changed: a content window was
\* returned and its title is not the one of last_active_tab
TabChanged(last, t) ==
    /\ t # None
    /\ IF last = None THEN TRUE
       ELSE last[1].window_title # t[1].window_title

\* a deactivation that forgets the process
DeactivateAndClear(s) == [DefaultState EXCEPT !.last_update = Some(Instant_now)]

\* the writes of the else branch of check_process
Deactivate(s) == [s EXCEPT !.is_active = FALSE, !.last_update = Some(Instant_now)]

\* the fields of ProcessMonitorState other than the timestamp
Core(s) == [s EXCEPT !.last_update = None]

\* the live loop tasks, and how many of them there are
LoopTasks == BagToSet(loop)
AliveLoops == BagCardinality(loop)
Spawning == { c \in Callers : caller[c] = "set" }

\* one task moves from record r to record r2; one task at r ends
Step(r, r2) == loop' = (loop (-) SetToBag({r})) (+) SetToBag({r2})
Exit(r) == loop' = loop (-) SetToBag({r})

\* what a check observed, as far as the next check can be compared with it
Observation(d) ==
    IF d.kind = "found"
    THEN [kind |-> "found", meta |-> d.meta, tab |-> d.tab, locked |-> d.locked]
    ELSE IF d.kind = "notfound"
    THEN [NoObs EXCEPT !.kind = "notfound", !.locked = d.locked]
    ELSE NoObs

\* the step is neither the end of a guarded check nor a return of get_state
NoEvent == done' = NoCheck /\ ret' = NoReturn

\* the end of one check_process call of the task at r (or of its timeout):
\* the loop goes back to interval.tick() and the history variables record
\* the check, with is_active and last_metadata as they stood before it
Finish(r, summary) ==
    /\ done' = [summary EXCEPT !.prev = obs,
                               !.err = ReturnsErr(summary.kind),
                               !.first = r.first,
                               !.wasActive = committed.is_active,
                               !.last = committed.last_metadata]
    /\ obs' = Observation(summary)
    /\ ret' = NoReturn
    /\ IF EndsLoop(summary.kind)
       THEN Exit(r)
       ELSE Step(r, [WaitLoop EXCEPT !.missed = r.missed, !.backlog = r.backlog])

\* ------------------------------------------------------- start() / stop()
\* start(): `self.is_running.lock().unwrap()` and `if *is_running { return
\* Ok(()); }`; the guard is kept when the flag is false
StartTest(c) ==
    /\ caller[c] = "idle"
    /\ RunLockFree
    /\ AliveLoops + Cardinality(Spawning) < MaxLoops
    /\ IF is_running
       THEN UNCHANGED <<caller, runLock>>
       ELSE /\ caller' = [caller EXCEPT ![c] = "set"]
            /\ runLock' = Some(c)
    /\ NoEvent
    /\ UNCHANGED <<config, diff, work, abandoned, state, stateLock, is_running, loop, now, rd,
                   committed, obs>>

\* start(): `*is_running = true; drop(is_running);`, then the loop task is
\* handed to tokio::task::spawn_blocking and Ok(()) is returned. The first
\* statement of the task creates its interval, which nobody else can see:
\* the task is at its interval from the start, unless that statement panics
\* (`fresh` is the record of the new task)
StartSetAs(c, fresh) ==
    /\ caller[c] = "set"
    /\ AliveLoops < MaxLoops
    /\ is_running' = TRUE
    /\ runLock' = None
    /\ caller' = [caller EXCEPT ![c] = "idle"]
    /\ loop' = loop (+) SetToBag({IF IntervalPanics(LoopConfig.check_interval)
                                   THEN [fresh EXCEPT !.pc = "spawned"]
                                   ELSE fresh})
    /\ state' = StartKeeps(state)
    /\ NoEvent
    /\ UNCHANGED <<config, diff, work, abandoned, stateLock, now, rd, committed, obs>>

StartSet(c) == StartSetAs(c, WaitLoop)

\* stop()
Stop(c) ==
    /\ caller[c] = "idle"
    /\ RunLockFree
    /\ is_running' = FALSE
    /\ NoEvent
    /\ UNCHANGED <<config, diff, work, abandoned, state, stateLock, runLock, caller, loop, now, rd,
                   committed, obs>>

\* ------------------------------------------------------------ loop task
\* `interval(Duration::from_secs(config.check_interval))` panics: the task
\* ends, nobody holds its JoinHandle and the run flag is left as it is
CreateInterval(r) ==
    /\ r.pc = "spawned"
    /\ IntervalPanics(LoopConfig.check_interval)
    /\ Exit(r)
    /\ NoEvent
    /\ UNCHANGED <<config, diff, work, abandoned, state, stateLock, is_running, runLock,
                   caller, now, rd, committed, obs>>

\* (`counted` bounds the wake-ups of a behaviour by MaxClock; without it
\* the interval goes on for ever and `now` stays at MaxClock)
\* `interval.tick().await` returns and the run flag is tested under its
\* lock; when it is set the loop calls check_process under
\* tokio::time::timeout and awaits the collection worker. The interval is
\* created by tokio::time::interval and its missed-tick behaviour is never
\* set, so it is the default one, Burst: a tick() whose deadline has already
\* elapsed returns at once and the next deadline stays one period after it
TickAt(r, counted) ==
    /\ r.pc = "wait"
    /\ counted => now < MaxClock
    /\ RunLockFree
    /\ now' = IF now < MaxClock THEN now + 1 ELSE now
    /\ IF ShouldBreak(is_running)
       THEN Exit(r)
       ELSE Step(r, [r EXCEPT !.pc = "collect",
                              !.missed = 0,
                              !.backlog = IF r.missed + r.backlog > 0
                                          THEN r.missed + r.backlog - 1
                                          ELSE 0])
    /\ NoEvent
    /\ UNCHANGED <<config, diff, work, abandoned, state, stateLock, is_running, runLock, caller,
                   rd, committed, obs>>

\* the 5 second timeout fires while check_process awaits the worker: the
\* check_process future is dropped with the JoinHandle of the worker. The
\* worker keeps running; `late` tells whether it will ever return (its
\* media call may hang for ever)
Timeout(r, late) ==
    /\ TimeoutPoint(r.pc)
    /\ abandoned' = (abandoned \/ late)
    /\ Finish(r, [NoCheck EXCEPT !.kind = "timeout", !.active = state.is_active,
                                 !.replaced = r.replaced, !.stamped = r.stamped])
    /\ UNCHANGED <<config, diff, work, state, stateLock, is_running, runLock, caller, now,
                   rd, committed>>

\* a wake-up among the first MaxClock of the behaviour
Tick(r) == TickAt(r, TRUE)

\* one period of the interval ends while check_process awaits its worker
\* (the await lasts up to the 5 seconds of the timeout, the period is
\* check_interval seconds): one more deadline has elapsed undelivered
Overrun(r) ==
    /\ r.pc = "collect"
    /\ r.missed < MaxMissed
    /\ Step(r, [r EXCEPT !.missed = r.missed + 1])
    /\ NoEvent
    /\ UNCHANGED <<config, diff, work, abandoned, state, stateLock, is_running, runLock,
                   caller, now, rd, committed, obs>>

\* the last worker left behind by a timeout returns: nobody holds its
\* JoinHandle and the result is dropped
LateResult ==
    /\ abandoned
    /\ abandoned' = FALSE
    /\ done' = [NoCheck EXCEPT !.kind = "late"]
    /\ ret' = NoReturn
    /\ UNCHANGED <<config, diff, work, state, stateLock, is_running, runLock, caller, loop,
                   now, rd, committed, obs>>

\* the worker returns Ok(Ok(Some(metadata))): the resolver found the pid of
\* snapshot m and both sources answered; check_process tries the lock
CollectFound(r, m) ==
    /\ r.pc = "collect"
    /\ CheckLockReturns
    /\ LET result == monitor_process_by_name(Ok(Some(m.pid)), Ok(BaseOf(m)),
                                             Ok(m.media_sessions), LoopConfig)
       IN /\ IsFound(result)
          /\ IF CheckTryLock
             THEN /\ stateLock' = Some("loop")
                  /\ Step(r, [r EXCEPT !.pc = "meta", !.metadata = result.val[1]])
                  /\ NoEvent
                  /\ UNCHANGED obs
             ELSE /\ Finish(r, [NoCheck EXCEPT !.kind = "found",
                                               !.meta = result.val[1],
                                               !.active = state.is_active])
                  /\ UNCHANGED stateLock
    /\ UNCHANGED <<config, diff, work, abandoned, state, is_running, runLock, caller, now,
                   rd, committed>>

\* the worker returns anything else, for the cause k (Ok(Ok(None)): no such
\* process; Ok(Err): a source failed), and check_process tries the lock in
\* the else branch
CollectMissing(r, k) ==
    /\ r.pc = "collect"
    /\ CheckLockReturns
    /\ ~IsFound(monitor_process_by_name(ResolvedFor(k), BaseFor(k),
                                        MediaFor(k), LoopConfig))
    /\ IF CheckTryLock
       THEN /\ stateLock' = Some("loop")
            /\ Step(r, [r EXCEPT !.pc = k])
            /\ NoEvent
            /\ UNCHANGED obs
       ELSE /\ Finish(r, [NoCheck EXCEPT !.kind = k, !.active = state.is_active])
            /\ UNCHANGED stateLock
    /\ UNCHANGED <<config, diff, work, abandoned, state, is_running, runLock, caller, now,
                   rd, committed>>

\* check_process, found branch: is_new_process, metadata_changed, the
\* replacement of last_metadata and the callback
ApplyMetadata(r) ==
    /\ r.pc = "meta"
    /\ LET metadata == r.metadata[1]
           last == state.last_metadata
           is_new_process == IF last = None THEN WhenNoLast
                             ELSE last[1].pid # metadata.pid
           metadata_changed == IF last = None THEN WhenNoLast
                               ELSE has_metadata_changed(last[1], metadata)
           callback == LoopConfig.on_data_change
       IN IF ShouldReplace(is_new_process, metadata_changed)
          THEN /\ state' = [state EXCEPT !.last_metadata = Some(metadata),
                                         !.is_active = TRUE,
                                         !.last_update = Some(Instant_now)]
               /\ Step(r, [r EXCEPT !.pc = "tab",
                                     !.has_changes = TRUE,
                                     !.replaced = TRUE,
                                     !.stamped = TRUE,
                                     !.cb = IF callback THEN 1 ELSE 0,
                                     !.cbAfter = callback])
          ELSE /\ Step(r, [r EXCEPT !.pc = "tab"])
               /\ UNCHANGED state
    /\ NoEvent
    /\ UNCHANGED <<config, diff, work, abandoned, stateLock, is_running, runLock, caller, now, rd,
                   committed, obs>>

\* check_process, found branch: the active tab, then the guard is dropped
\* and Ok(has_changes) is returned
CheckActiveTab(r, t) ==
    /\ r.pc = "tab"
    /\ t \in (IF LoopConfig.window_info THEN TabResults ELSE {None})
    /\ LET last == state.last_active_tab
           tab_changed == TabChanged(last, t)
           post == IF tab_changed THEN [state EXCEPT !.last_active_tab = t] ELSE state
       IN /\ state' = post
          /\ committed' = post
          /\ Finish(r, [NoCheck EXCEPT
                          !.kind = "found", !.meta = r.metadata, !.tab = t,
                          !.locked = TRUE,
                          !.changed = (r.has_changes \/ tab_changed),
                          !.replaced = r.replaced, !.stamped = r.stamped,
                          !.cb = r.cb, !.cbAfter = r.cbAfter,
                          !.mutated = (Core(post) # Core(committed)),
                          !.active = post.is_active])
    /\ stateLock' = None
    /\ UNCHANGED <<config, diff, work, abandoned, is_running, runLock, caller, now, rd>>

\* check_process, else branch: the deactivation, then the guard is dropped
\* and Ok(has_changes) is returned
ApplyNotFound(r) ==
    /\ r.pc \in Causes
    /\ LET deactivate == ShouldDeactivate(state.is_active)
           post == IF deactivate THEN Deactivate(state) ELSE state
       IN /\ state' = post
          /\ committed' = post
          /\ Finish(r, [NoCheck EXCEPT !.kind = r.pc, !.locked = TRUE,
                                       !.changed = deactivate,
                                       !.stamped = deactivate,
                                       !.mutated = (Core(post) # Core(committed)),
                                       !.active = post.is_active])
    /\ stateLock' = None
    /\ UNCHANGED <<config, diff, work, abandoned, is_running, runLock, caller, now, rd>>

\* ------------------------------------------------------------ get_state()
\* `match self.state.try_lock()`: the guard is taken, or the Err arm returns
GetStateTry ==
    /\ rd = "idle"
    /\ IF GetStateTryLock
       THEN /\ stateLock' = Some("reader")
            /\ rd' = "clone"
            /\ ret' = NoReturn
       ELSE /\ ret' = [how |-> "contended", value |-> ContendedRead(state)]
            /\ UNCHANGED <<stateLock, rd>>
    /\ done' = NoCheck
    /\ UNCHANGED <<config, diff, work, abandoned, state, is_running, runLock, caller, loop, now,
                   committed, obs>>

\* `Ok(guard) => guard.clone()`, then the guard is dropped
GetStateClone ==
    /\ rd = "clone"
    /\ rd' = "idle"
    /\ ret' = [how |-> "copy", value |-> state]
    /\ stateLock' = None
    /\ done' = NoCheck
    /\ UNCHANGED <<config, diff, work, abandoned, state, is_running, runLock, caller, loop, now,
                   committed, obs>>

Next ==
    \/ \E c \in Callers : StartTest(c)
    \/ \E c \in Callers : StartSet(c)
    \/ \E c \in Callers : Stop(c)
    \/ \E r \in LoopTasks : CreateInterval(r)
    \/ \E r \in LoopTasks : Tick(r)
    \/ \E r \in LoopTasks, late \in BOOLEAN : Timeout(r, late)
    \/ LateResult
    \/ \E r \in LoopTasks, m \in Snapshots : CollectFound(r, m)
    \/ \E r \in LoopTasks, k \in Causes : CollectMissing(r, k)
    \/ \E r \in LoopTasks : ApplyMetadata(r)
    \/ \E r \in LoopTasks, t \in TabResults : CheckActiveTab(r, t)
    \/ \E r \in LoopTasks : ApplyNotFound(r)
    \/ GetStateTry
    \/ GetStateClone

Spec == Init /\ [][Next]_vars

\* has_metadata_changed alone: the engine is not started, the function is
\* called on a pair of snapshots, on the swapped pair and on each snapshot
\* with itself
InitDiff ==
    /\ InitEngine
    /\ config.window_info
    /\ diff \in [last : DiffSnapshots, current : DiffSnapshots, result : {None}]
    /\ work = NoWork

Compare ==
    /\ diff.result = None
    /\ diff' = [diff EXCEPT !.result =
                   Some([fwd |-> has_metadata_changed(diff.last, diff.current),
                         bwd |-> has_metadata_changed(diff.current, diff.last),
                         self |-> has_metadata_changed(diff.last, diff.last)])]
    /\ UNCHANGED <<config, state, stateLock, is_running, runLock, caller, loop,
                   abandoned, now, rd, ret, committed, obs, work, done>>

NextDiff == Compare

SpecDiff == InitDiff /\ [][NextDiff]_vars

\* --------------------------------------------------- the collection worker
\* One collection worker of check_process followed step by step, from the
\* spawn_blocking of check_process to the end of its check. The engine is
\* not started; the inputs are what the resolver, the Metadata Source and
\* the Media Source answer when they are asked.
engine == <<state, stateLock, is_running, runLock, caller, loop, abandoned,
            now, rd, ret, committed, obs, done>>

WorkResolved == {Err, Ok(None)} \cup { Ok(Some(m.pid)) : m \in Snapshots }
WorkBase == {Err} \cup { Ok(BaseOf(m)) : m \in Snapshots }
WorkMedia == {Err, Ok(<<>>)} \cup { Ok(m.media_sessions) : m \in Snapshots }

InitWork ==
    /\ config \in [window_info : {TRUE}, media_control : BOOLEAN,
                    on_data_change : {TRUE}, check_interval : {3}]
    /\ NewEngine
    /\ diff = NoDiff
    /\ work \in [pc : {"find"}, resolved : WorkResolved, base : WorkBase,
                  media : WorkMedia, metadata : {None}, thread : {"none"},
                  queried : {FALSE}, result : {None}, check : {"awaiting"}]

\* a join that does not wait for the media thread
JoinDetached(thread) == TRUE

\* `.join()` on the media thread returns when the thread has ended
JoinReturns(thread) == thread = "finished"

\* `if options.media_control` in get_process_metadata
MediaRequested(options) == options.media_control

\* monitor_process_by_name: `self.find_pid_by_executable_name(..)?`
FindPid ==
    /\ work.pc = "find"
    /\ work' = IF ~work.resolved.ok
               THEN [work EXCEPT !.pc = "done", !.result = Some(Err)]
               ELSE IF work.resolved.val[1] = None
               THEN [work EXCEPT !.pc = "done", !.result = Some(Ok(None))]
               ELSE [work EXCEPT !.pc = "base"]
    /\ UNCHANGED <<config, diff, engine>>

\* get_process_metadata: `collect_all_metadata(pid, &options)?`, then the
\* test of options.media_control; without media the snapshot is returned
CollectBase ==
    /\ work.pc = "base"
    /\ work' = IF ~work.base.ok
               THEN [work EXCEPT !.pc = "done", !.result = Some(Err)]
               ELSE IF MediaRequested(LoopConfig)
               THEN [work EXCEPT !.pc = "spawn", !.metadata = Some(work.base.val[1])]
               ELSE [work EXCEPT !.pc = "done", !.metadata = Some(work.base.val[1]),
                                 !.result = Some(Ok(Some(work.base.val[1])))]
    /\ UNCHANGED <<config, diff, engine>>

\* get_process_metadata: std::thread::spawn of the media thread; the
\* worker goes on to `.join()`
SpawnMedia ==
    /\ work.pc = "spawn"
    /\ work' = [work EXCEPT !.pc = "join", !.thread = "running"]
    /\ UNCHANGED <<config, diff, engine>>

\* the media thread: its own Runtime, the two block_on calls on the Media
\* Source, and the end of the thread
MediaQuery ==
    /\ work.thread = "running"
    /\ work' = [work EXCEPT !.thread = "finished", !.queried = TRUE]
    /\ UNCHANGED <<config, diff, engine>>

\* get_process_metadata: `.join().unwrap()?`, the sessions are merged into
\* the snapshot and Ok(metadata) is returned through monitor_process_by_name
JoinMedia ==
    /\ work.pc = "join"
    /\ JoinReturns(work.thread)
    /\ LET joined == IF work.thread = "finished" THEN "joined" ELSE work.thread
           merged == [work.metadata[1] EXCEPT !.media_sessions = work.media.val[1]]
       IN work' = IF ~work.media.ok
                  THEN [work EXCEPT !.pc = "done", !.thread = joined,
                                    !.result = Some(Err)]
                  ELSE [work EXCEPT !.pc = "done", !.thread = joined,
                                    !.metadata = Some(merged),
                                    !.result = Some(Ok(Some(merged)))]
    /\ UNCHANGED <<config, diff, engine>>

\* check_process: the await of the worker returns its result
CheckReturns ==
    /\ work.pc = "done"
    /\ work.check = "awaiting"
    /\ work' = [work EXCEPT !.check = "completed"]
    /\ UNCHANGED <<config, diff, engine>>

\* tokio::time::timeout ends check_process while it awaits the worker; the
\* worker goes on
CheckTimeout ==
    /\ work.check = "awaiting"
    /\ TimeoutPoint("collect")
    /\ work' = [work EXCEPT !.check = "timedout"]
    /\ UNCHANGED <<config, diff, engine>>

NextWork ==
    \/ FindPid
    \/ CollectBase
    \/ SpawnMedia
    \/ MediaQuery
    \/ JoinMedia
    \/ CheckReturns
    \/ CheckTimeout

SpecWork == InitWork /\ [][NextWork]_vars

\* The engine in an environment where the Media Source call of every
\* collection worker hangs: no worker ever returns to check_process, so a
\* check can only end by its timeout. The timers (interval and timeout) fire
\* and a caller inside start() goes on to release the run flag.
NextHung ==
    \/ \E c \in Callers : StartTest(c)
    \/ \E c \in Callers : StartSet(c)
    \/ \E c \in Callers : Stop(c)
    \/ \E r \in LoopTasks : CreateInterval(r)
    \/ \E r \in LoopTasks : Tick(r)
    \/ \E r \in LoopTasks : Timeout(r, FALSE)
    \/ GetStateTry
    \/ GetStateClone

FairHung ==
    /\ WF_vars(\E r \in LoopTasks : Timeout(r, FALSE))
    /\ WF_vars(\E r \in LoopTasks : Tick(r))
    /\ \A c \in Callers : WF_vars(StartSet(c))
    /\ WF_vars(\E r \in LoopTasks : CreateInterval(r))

SpecHung == Init /\ [][NextHung]_vars /\ FairHung

\* The engine with its timers and its threads running: the interval of a
\* waiting loop fires, the timeout of a check that awaits its worker fires
\* if the worker has not returned, the synchronous part of check_process
\* runs to its end, and a caller inside start() goes on to release the run
\* flag. Nothing is assumed about the collaborators or the callers.
FairLive ==
    /\ WF_vars(\E r \in LoopTasks : Tick(r))
    /\ WF_vars(\E r \in LoopTasks :
                  \/ \E late \in BOOLEAN : Timeout(r, late)
                  \/ ApplyMetadata(r)
                  \/ \E t \in TabResults : CheckActiveTab(r, t)
                  \/ ApplyNotFound(r))
    /\ WF_vars(\E c \in Callers : StartSet(c))
    /\ WF_vars(\E r \in LoopTasks : CreateInterval(r))

\* the steps of Next with one process image: what the loops do next never
\* depends on which snapshot a check collected, only on whether it got one
NextLive ==
    \/ \E c \in Callers : StartTest(c)
    \/ \E c \in Callers : StartSet(c)
    \/ \E c \in Callers : Stop(c)
    \/ \E r \in LoopTasks : CreateInterval(r)
    \/ \E r \in LoopTasks : Tick(r)
    \/ \E r \in LoopTasks, late \in BOOLEAN : Timeout(r, late)
    \/ LateResult
    \/ \E r \in LoopTasks : CollectFound(r, AnySnapshot)
    \/ \E r \in LoopTasks, k \in Causes : CollectMissing(r, k)
    \/ \E r \in LoopTasks : ApplyMetadata(r)
    \/ \E r \in LoopTasks, t \in TabResults : CheckActiveTab(r, t)
    \/ \E r \in LoopTasks : ApplyNotFound(r)
    \/ GetStateTry
    \/ GetStateClone

SpecLive == Init /\ [][NextLive]_vars /\ FairLive

\* The engine with an interval that goes on for ever, for what a loop does
\* in the long run: an engine built without window info, a process that is
\* there with either pid and either memory size or is not there, and
\* checks that may time out (their abandoned workers never return)
SteadySnapshots ==
    { m \in Snapshots : m.media_sessions[1].playback_status = Some("Playing") }

InitSteady == Init /\ ~config.window_info

NextSteady ==
    \/ \E c \in Callers : StartTest(c)
    \/ \E c \in Callers : StartSet(c)
    \/ \E c \in Callers : Stop(c)
    \/ \E r \in LoopTasks : CreateInterval(r)
    \/ \E r \in LoopTasks : TickAt(r, FALSE)
    \/ \E r \in LoopTasks : Timeout(r, FALSE)
    \/ \E r \in LoopTasks, m \in SteadySnapshots : CollectFound(r, m)
    \/ \E r \in LoopTasks : CollectMissing(r, "notfound")
    \/ \E r \in LoopTasks : ApplyMetadata(r)
    \/ \E r \in LoopTasks : CheckActiveTab(r, None)
    \/ \E r \in LoopTasks : ApplyNotFound(r)
    \/ GetStateTry
    \/ GetStateClone

FairSteady ==
    /\ WF_vars(\E r \in LoopTasks : TickAt(r, FALSE))
    /\ WF_vars(\E r \in LoopTasks :
                  \/ Timeout(r, FALSE)
                  \/ ApplyMetadata(r)
                  \/ CheckActiveTab(r, None)
                  \/ ApplyNotFound(r))
    /\ WF_vars(\E c \in Callers : StartSet(c))
    /\ WF_vars(\E r \in LoopTasks : CreateInterval(r))

SpecSteady == InitSteady /\ [][NextSteady]_vars /\ FairSteady

\* The engine with the time a check takes: the steps of NextLive, and the
\* periods of the interval that end during a check
NextOverrun ==
    \/ NextLive
    \/ \E r \in LoopTasks : Overrun(r)

SpecOverrun == Init /\ [][NextOverrun]_vars

\* The engine stopped and started again, with the new loop tasks told
\* apart until their first check completes: an interval that can be
\* created, a process that is there or not, and no timeout
InitRestart == Init /\ ~IntervalPanics(config.check_interval)

StartMarked(c) == StartSetAs(c, NewLoop)

NextRestart ==
    \/ \E c \in Callers : StartTest(c)
    \/ \E c \in Callers : StartMarked(c)
    \/ \E c \in Callers : Stop(c)
    \/ \E r \in LoopTasks : Tick(r)
    \/ \E r \in LoopTasks, m \in Snapshots : CollectFound(r, m)
    \/ \E r \in LoopTasks : CollectMissing(r, "notfound")
    \/ \E r \in LoopTasks : ApplyMetadata(r)
    \/ \E r \in LoopTasks, t \in TabResults : CheckActiveTab(r, t)
    \/ \E r \in LoopTasks : ApplyNotFound(r)

SpecRestart == InitRestart /\ [][NextRestart]_vars

\* ------------------------------------------------------------- properties
\* number of elements of the bag b that lie in the set S
RECURSIVE CountIn(_, _)
CountIn(b, S) ==
    IF S = {} THEN 0
    ELSE LET x == CHOOSE y \in S : TRUE
         IN CopiesIn(x, b) + CountIn(b, S \ {x})

\* number of loop tasks that have passed the run-flag test and are inside
\* an iteration
InIteration == CountIn(loop, { r \in LoopTasks : r.pc \notin {"wait", "spawned"} })

\* number of loop tasks that have created their interval and are looping
Looping == CountIn(loop, { r \in LoopTasks : r.pc # "spawned" })

\* two checks found the process with the same pid, snapshots equal in all
\* compared fields and the same active-window result
SameObservation(a, b) ==
    /\ a.kind = "found"
    /\ b.kind = "found"
    /\ a.meta[1].pid = b.meta[1].pid
    /\ ~has_metadata_changed(a.meta[1], b.meta[1])
    /\ a.tab = b.tab

\* the second of two such checks reported nothing and wrote nothing
NothingReported(d) ==
    ~d.changed /\ d.cb = 0 /\ ~d.mutated /\ ~d.stamped

\* C1: in an engine built with a change callback, every guarded check that
\* replaces last_metadata invokes the callback exactly once.
C1_CallbackOnReplace ==
    (config.on_data_change /\ done.replaced) => done.cb = 1

\* C2: after every completed guarded check that acquired the state lock,
\* is_active is true if and only if that check found the process.
C2_ActiveIffFound ==
    done.locked => (done.active <=> done.kind = "found")

\* C3: under any interleaving of start() and stop(), at most one loop task
\* is running iterations against the state at any time.
C3_AtMostOneLoop ==
    InIteration <= 1

\* C4: start() with the run flag already true launches nothing and changes
\* neither the flag nor the state; a loop is launched only by the one call
\* that takes the flag from false to true under its lock, so no call is past
\* its test while the flag is true.
C4_StartIdempotent ==
    /\ [](is_running => Spawning = {})
    /\ [][ /\ is_running => (AliveLoops' <= AliveLoops /\ caller' = caller)
           /\ AliveLoops' > AliveLoops =>
                 /\ ~is_running
                 /\ is_running'
                 /\ AliveLoops' = AliveLoops + 1
                 /\ state' = state ]_vars

C4_Witness ==
    /\ is_running
    /\ AliveLoops = 1
    /\ \A c \in Callers : caller[c] = "idle"
    /\ state.last_metadata # None
    /\ now >= 2

\* C5: while the run flag is false, a loop that is not inside a guarded
\* check begins none: only the check in flight when stop() returned can
\* still complete.
C5_NoCheckAfterStop ==
    [][ ~is_running => InIteration' <= InIteration ]_vars

C5_Witness ==
    /\ ~is_running
    /\ AliveLoops = 0
    /\ state.last_metadata # None
    /\ now >= 2

\* C6: every value get_state() returns is the complete state as it stood at
\* a boundary of a guarded check (the state before the first check is the
\* default one), never a state a check has half written.
C6_NoTornRead ==
    ret.how # "none" => ret.value \in {committed, DefaultState}

C6_Witness ==
    /\ ret.how = "copy"
    /\ ret.value.last_metadata # None
    /\ ret.value.last_active_tab # None
    /\ \E r \in LoopTasks : r.pc = "collect"

\* C7: get_state() never waits: with the lock free it returns a copy of the
\* current state; with the lock held it returns at once, with the default
\* state (one of the two values allowed for that case).
C7_GetStateNeverWaits ==
    /\ rd = "idle" => ENABLED GetStateTry
    /\ ret.how = "copy" => (ret.value = state /\ stateLock = None)
    /\ ret.how = "contended" => (ret.value = DefaultState /\ stateLock # None /\ rd = "idle")

C7_Witness ==
    /\ ret.how = "contended"
    /\ ret.value = DefaultState
    /\ state.last_metadata # None
    /\ stateLock = Some("loop")

\* C8: in an engine built with a change callback, a guarded check that
\* updates the state for its tick invokes the callback after that update,
\* so that the update is in place when the callback returns.
C8_CallbackAfterUpdate ==
    (config.on_data_change /\ done.kind = "found" /\ done.stamped) => done.cbAfter

\* C9 as stated: when two consecutive guarded checks observe the same pid,
\* equal compared fields and the same active window, the second reports no
\* change, invokes no callback and leaves every state field unchanged.
C9_Original ==
    SameObservation(done.prev, done) => NothingReported(done)

\* C9 amended: the same, when the first of the two checks acquired the
\* state lock (a check skipped on lock contention applies nothing, so the
\* next one still has the change to report).
C9_IdempotentNotification ==
    (done.prev.locked /\ SameObservation(done.prev, done)) => NothingReported(done)

C9_Witness ==
    /\ done.locked
    /\ done.prev.locked
    /\ SameObservation(done.prev, done)
    /\ done.meta # done.prev.meta
    /\ state.is_active
    /\ NothingReported(done)

\* C10: a guarded check stamps last_update if and only if it mutates
\* last_metadata, is_active or last_active_tab.
C10_StampIffMutation ==
    done.locked => (done.stamped <=> done.mutated)

\* the deactivation as the not-found branch performs it
Deactivated(d) == ~d.active /\ d.stamped /\ d.changed

\* C11 as stated: a guarded check whose resolution is not-found, from
\* is_active = true, sets is_active = false, stamps last_update and reports
\* changed; a not-found check immediately following a not-found check
\* reports unchanged and does not modify the state.
C11_Original ==
    /\ (done.kind = "notfound" /\ done.wasActive) => Deactivated(done)
    /\ (done.kind = "notfound" /\ done.prev.kind = "notfound") => NothingReported(done)

\* C11 amended: the same for checks that acquire the state lock (a check
\* skipped on lock contention leaves the deactivation to the next one).
C11_TransitionToInactive ==
    /\ (done.kind = "notfound" /\ done.locked /\ done.wasActive) => Deactivated(done)
    /\ (done.kind = "notfound" /\ done.prev.kind = "notfound" /\ done.prev.locked)
          => NothingReported(done)

C11_Witness ==
    /\ done.kind = "notfound"
    /\ done.locked
    /\ done.prev.kind = "notfound"
    /\ done.prev.locked
    /\ NothingReported(done)
    /\ state.last_metadata # None
    /\ state.last_update # None
    /\ now = MaxClock
    /\ ~state.is_active

\* the check found a pid other than the one of last_metadata
NewPid(d) ==
    /\ d.kind = "found"
    /\ d.last # None
    /\ d.last[1].pid # d.meta[1].pid

\* C12 as stated: whenever a guarded check finds the process with a pid
\* different from last_metadata.pid, it reports changed and replaces
\* last_metadata with the new snapshot, whatever has_metadata_changed says.
C12_Original ==
    NewPid(done) => (done.changed /\ done.replaced /\ state.last_metadata = done.meta)

\* C12 amended: the same for a check that acquires the state lock (on lock
\* contention the check returns before it compares anything).
C12_NewProcessDetection ==
    (done.locked /\ NewPid(done)) =>
        (done.changed /\ done.replaced /\ state.last_metadata = done.meta)

C12_Witness ==
    /\ done.locked
    /\ NewPid(done)
    /\ ~has_metadata_changed(done.last[1], done.meta[1])
    /\ done.changed
    /\ state.last_metadata = done.meta

\* C13: when the Media Source call of a guarded check never returns, the
\* check ends with a timeout (the number of checks in flight goes down),
\* the loop that ran it is back at its interval and not ended, and the next
\* tick takes place.
C13_BoundedTickLatency ==
    /\ \A n \in 1..MaxLoops : (InIteration = n) ~> (InIteration < n)
    /\ [](done.kind = "timeout" => \E r \in LoopTasks : r.pc = "wait")
    /\ \A n \in 1..(MaxClock - 1) : (done.kind = "timeout" /\ now = n) ~> (now > n)

C13_Witness ==
    /\ done.kind = "timeout"
    /\ done.prev = NoObs
    /\ now = MaxClock
    /\ is_running
    /\ state = DefaultState

Skipped(d) == d.kind \in {"found"} \cup Causes /\ ~d.locked

\* C15: a guarded check that finds the state lock held, in the found or in
\* the not-found branch, does not wait for it; it reports no change, invokes
\* no callback and modifies no field of the state.
C15_LockContention ==
    /\ [](\A r \in LoopTasks : r.pc = "collect" =>
            /\ \A m \in Snapshots : ENABLED CollectFound(r, m)
            /\ \A k \in Causes : ENABLED CollectMissing(r, k))
    /\ [](Skipped(done) => (NothingReported(done) /\ ~done.replaced /\ stateLock # None))
    /\ [][ Skipped(done') => (state' = state /\ stateLock' = stateLock) ]_vars

C15_Witness ==
    /\ Skipped(done)
    /\ done.kind = "notfound"
    /\ done.wasActive
    /\ state.is_active
    /\ rd = "clone"

\* the outcomes of a check that are not a found tick applied to the state
Failure(d) == d.kind \in {"timeout"} \cup Causes \/ Skipped(d)

\* C16: after a check that failed, timed out, hit lock contention or found
\* no process, the loop is back at its interval; its next tick is not
\* blocked, and with the run flag true that tick starts another check; a
\* loop task ends only in a tick that reads the run flag false.
C16_OutcomeNeverEndsLoop ==
    /\ [](Failure(done) => \E r \in LoopTasks : r.pc = "wait")
    /\ [](\A r \in LoopTasks :
            (r.pc = "wait" /\ now < MaxClock /\ runLock = None) => ENABLED Tick(r))
    /\ [][ /\ (now' # now /\ is_running) => InIteration' = InIteration + 1
           /\ Looping' < Looping =>
                 (~is_running /\ now' # now /\ InIteration' = InIteration) ]_vars

C16_Witness ==
    /\ done.kind = "failed"
    /\ done.prev = NoObs
    /\ now = MaxClock
    /\ state = DefaultState
    /\ is_running
    /\ AliveLoops = 1

\* a found tick applied to the state: is_active is true afterwards, and a
\* snapshot of this tick or one equal to it in pid and compared fields is
\* the stored one
FoundTick(d) ==
    /\ d.locked
    /\ d.active
    /\ state.last_metadata # None

\* C17: when the resolver finds a pid and the Metadata Source fails to open
\* or query the process, the guarded check reports no change and leaves the
\* state unchanged; is_active stays true if it was.
C17_CollectionFailure ==
    done.kind = "failed" =>
        (NothingReported(done) /\ (done.wasActive => done.active))

\* C18: when the Media Source returns an error for a found process, the
\* guarded check proceeds as a found tick: the process is not treated as
\* not found and is_active is not flipped to false.
C18_MediaFailure ==
    (done.kind = "mediafailed" /\ done.locked) =>
        (FoundTick(done) /\ (done.wasActive => done.active))

\* the condition of the specification, field by field
Differs(a, b) ==
    \/ a.window_title # b.window_title
    \/ a.working_set_size # b.working_set_size
    \/ a.handle_count # b.handle_count
    \/ Len(a.windows) # Len(b.windows)
    \/ Len(a.media_sessions) # Len(b.media_sessions)
    \/ \E i \in (DOMAIN a.media_sessions) \cap (DOMAIN b.media_sessions) :
          \/ a.media_sessions[i].title # b.media_sessions[i].title
          \/ a.media_sessions[i].artist # b.media_sessions[i].artist
          \/ a.media_sessions[i].album # b.media_sessions[i].album

\* C19: has_metadata_changed(last, current) is true if and only if the
\* window title, the working-set size, the handle count, the number of
\* windows or the number of media sessions differs, or the title, artist or
\* album differs at an index present in both media lists; pid, playback
\* status and the titles of the windows do not count.
C19_DiffCondition ==
    diff.result # None =>
        (diff.result[1].fwd <=> Differs(diff.last, diff.current))

C19_Witness ==
    /\ diff.result # None
    /\ ~diff.result[1].fwd
    /\ diff.last.pid # diff.current.pid
    /\ diff.last.windows # diff.current.windows
    /\ diff.last.media_sessions # diff.current.media_sessions
    /\ Len(diff.last.media_sessions) = 2

\* C20: has_metadata_changed(A, B) = has_metadata_changed(B, A) and
\* has_metadata_changed(A, A) is false, for all snapshots A and B.
C20_DiffSymmetricReflexive ==
    diff.result # None =>
        /\ diff.result[1].fwd = diff.result[1].bwd
        /\ ~diff.result[1].self

C20_Witness ==
    /\ diff.result # None
    /\ diff.result[1].fwd
    /\ diff.result[1].bwd
    /\ diff.last.working_set_size = diff.current.working_set_size
    /\ diff.last.media_sessions # <<>>
    /\ Len(diff.last.media_sessions) = Len(diff.current.media_sessions)
    /\ diff.last.media_sessions[1].artist = None
    /\ diff.current.media_sessions[1].artist # None

\* C21: a found tick that holds the state lock, with window info requested
\* and an active content window returned whose title differs from the one
\* of last_active_tab (or with none recorded), replaces last_active_tab and
\* reports changed, whether or not pid and metadata changed; in every other
\* found tick (window info not requested, no content window, equal title)
\* last_active_tab is left unchanged.
C21_ActiveWindowTracking ==
    [][ (done'.kind = "found" /\ done'.locked) =>
           LET t == done'.tab
               last == state.last_active_tab
           IN IF /\ config.window_info
                 /\ t # None
                 /\ (last = None \/ last[1].window_title # t[1].window_title)
              THEN state'.last_active_tab = t /\ done'.changed
              ELSE state'.last_active_tab = last ]_vars

C21_Witness ==
    /\ done.kind = "found"
    /\ done.locked
    /\ done.prev.locked
    /\ SameObservation([done.prev EXCEPT !.tab = done.tab], done)
    /\ ~done.replaced
    /\ done.changed
    /\ done.prev.tab # None
    /\ done.tab # done.prev.tab
    /\ state.last_active_tab = done.tab

\* C22: once the run flag is false, every tick a loop takes ends that loop,
\* and unless start() sets the flag again all the loops end, whatever the
\* checks in flight do (apply a change or none, fail, skip, time out); the
\* interval must still have one wake-up to deliver to each loop.
C22_CooperativeStop ==
    /\ [][ (~is_running /\ now' # now) => AliveLoops' = AliveLoops - 1 ]_vars
    /\ (~is_running /\ AliveLoops > 0 /\ now + AliveLoops <= MaxClock)
          ~> (AliveLoops = 0 \/ is_running)

C22_Witness ==
    /\ ~is_running
    /\ AliveLoops = 0
    /\ now = MaxClock
    /\ obs.kind = "notfound"
    /\ obs.locked
    /\ state.last_metadata # None
    /\ ~state.is_active

\* C23: when a guarded check lasts longer than the tick interval, its
\* completion is followed by one immediate re-evaluation only: the tick that
\* starts that re-evaluation leaves no missed deadline behind to be replayed
\* by a further immediate tick.
C23_OverrunSingleReevaluation ==
    \A r \in LoopTasks : r.backlog = 0

\* C24: the Media Source is queried only by the media thread and only when
\* the media category is requested; when a check completes (its await of the
\* worker returns) no media thread is running, and the snapshot it receives
\* is the one of the Metadata Source with the media sessions of this tick
\* merged in, which is what monitor_process_by_name yields.
C24_MediaWorkerJoined ==
    /\ work.queried => (LoopConfig.media_control /\ work.thread \in {"finished", "joined"})
    /\ work.check = "completed" =>
          /\ work.thread \in {"none", "joined"}
          /\ work.result # None
          /\ work.result[1].ok =
                monitor_process_by_name(work.resolved, work.base, work.media, LoopConfig).ok
          /\ IsFound(work.result[1]) =>
                /\ work.result[1] = monitor_process_by_name(work.resolved, work.base,
                                                            work.media, LoopConfig)
                /\ LoopConfig.media_control =>
                      (work.queried /\ work.result[1].val[1][1].media_sessions = work.media.val[1])

C24_Witness ==
    /\ work.check = "completed"
    /\ work.thread = "joined"
    /\ IsFound(work.result[1])
    /\ work.result[1].val[1][1].media_sessions # <<>>
    /\ work.resolved.val[1][1] # work.base.val[1].pid

\* C25: in every reachable state, is_active = true implies last_metadata is
\* present, last_metadata present implies last_update present, and
\* last_active_tab present implies last_metadata present.
C25_StateWellFormed ==
    /\ state.is_active => state.last_metadata # None
    /\ state.last_metadata # None => state.last_update # None
    /\ state.last_active_tab # None => state.last_metadata # None

C25_Witness ==
    /\ state.last_active_tab # None
    /\ state.last_metadata # None
    /\ state.last_update # None
    /\ ~state.is_active
    /\ stateLock = Some("loop")
    /\ \E r \in LoopTasks : r.pc = "tab" /\ ~r.replaced

\* C26: the step in which a not-found guarded check (no such process, or a
\* failed collection) applies its result leaves last_metadata and
\* last_active_tab as they are, and no step of any operation takes either
\* of them from present to absent.
C26_RetentionOnDeactivation ==
    [][ /\ done'.kind \in Causes =>
              /\ state'.last_metadata = state.last_metadata
              /\ state'.last_active_tab = state.last_active_tab
        /\ state.last_metadata # None => state'.last_metadata # None
        /\ state.last_active_tab # None => state'.last_active_tab # None ]_vars

C26_Witness ==
    /\ done.kind = "notfound"
    /\ done.locked
    /\ done.changed
    /\ done.wasActive
    /\ ~state.is_active
    /\ state.last_metadata # None
    /\ state.last_active_tab # None

\* the check assigned a field of the state
Wrote(d) == d.replaced \/ d.stamped \/ d.mutated

\* C27: a guarded check that returns (found or not, lock acquired or not)
\* returns true if and only if it wrote a field of the state, and never
\* returns an error: a failure of the resolver, of the collection or of the
\* media worker has the outcome of the not-found branch.
C27_ResultAgreesWithEffect ==
    done.kind \in {"found"} \cup Causes =>
        /\ ~done.err
        /\ done.changed <=> Wrote(done)
        /\ (done.kind # "found" /\ done.locked) =>
              (~done.active /\ (done.changed <=> done.wasActive))

C27_Witness ==
    /\ done.kind = "resolvefailed"
    /\ done.locked
    /\ done.changed
    /\ Wrote(done)
    /\ ~state.is_active
    /\ state.last_metadata # None

\* what check d observed is a change against the state it started from
PendingChange(d) ==
    \/ /\ d.kind = "found"
       /\ \/ d.last = None
          \/ d.last[1].pid # d.meta[1].pid
          \/ has_metadata_changed(d.last[1], d.meta[1])
    \/ d.kind = "notfound" /\ d.wasActive

\* the last completed check was skipped on lock contention after it found
\* snapshot m, and m is a change against the state
SkippedFound(m) ==
    /\ obs.kind = "found"
    /\ ~obs.locked
    /\ obs.meta = Some(m)
    /\ \/ state.last_metadata = None
       \/ state.last_metadata[1].pid # m.pid
       \/ has_metadata_changed(state.last_metadata[1], m)

\* the same for a not-found check while is_active is true
SkippedNotFound ==
    obs.kind = "notfound" /\ ~obs.locked /\ state.is_active

\* C28: a check skipped on lock contention writes nothing; the next check,
\* when it acquires the lock and makes the same observation (a changed
\* snapshot, a new pid, or not-found while is_active is true), reports
\* changed and applies it; and if checks acquire the lock again and again, a
\* change left pending by a skipped check is recorded unless a later check
\* observes something else.
C28_SkippedTickLosesNoChange ==
    /\ [][ Skipped(done') => state' = state ]_vars
    /\ []( ( /\ done.locked
             /\ ~done.prev.locked
             /\ done.prev.kind = done.kind
             /\ done.prev.meta = done.meta
             /\ PendingChange(done) )
           => /\ done.changed
              /\ done.kind = "found" =>
                    (done.replaced /\ state.last_metadata = done.meta /\ state.is_active)
              /\ done.kind = "notfound" => Deactivated(done) )
    /\ ([]<>(done.locked)) =>
          /\ \A m \in SteadySnapshots :
                SkippedFound(m) ~>
                    (state.last_metadata = Some(m) \/ obs.kind # "found" \/ obs.meta # Some(m))
          /\ SkippedNotFound ~> (~state.is_active \/ obs.kind # "notfound")

C28_Witness ==
    /\ done.locked
    /\ ~done.prev.locked
    /\ done.prev.kind = "found"
    /\ done.kind = "found"
    /\ done.prev.meta = done.meta
    /\ done.last # None
    /\ done.last[1].pid # done.meta[1].pid
    /\ done.changed
    /\ state.last_metadata = done.meta
    /\ now = MaxClock

\* C29: with check_interval = 0, start() sets the run flag and returns, the
\* spawned task ends before its first tick, no check ever runs and the state
\* stays at its default; while the flag is true start() launches nothing,
\* and only stop() makes the flag false again.
C29_ZeroInterval ==
    /\ [](config.check_interval = 0 =>
            /\ state = DefaultState
            /\ now = 0
            /\ InIteration = 0
            /\ Looping = 0
            /\ done = NoCheck
            /\ \A r \in LoopTasks : ENABLED CreateInterval(r))
    /\ [][ config.check_interval = 0 =>
             /\ (\E c \in Callers : StartSet(c)) => is_running'
             /\ is_running => (AliveLoops' <= AliveLoops /\ caller' = caller)
             /\ (is_running /\ ~is_running') => \E c \in Callers : Stop(c) ]_vars

C29_Witness ==
    /\ config.check_interval = 0
    /\ is_running
    /\ AliveLoops = 0
    /\ \A c \in Callers : caller[c] = "idle"
    /\ ret.how = "copy"
    /\ ret.value = DefaultState

\* the first check of a new loop finds the process with the pid and the
\* compared fields of the snapshot retained from before that loop
FirstCheckSameProcess(d) ==
    /\ d.first
    /\ d.kind = "found"
    /\ d.last # None
    /\ d.last[1].pid = d.meta[1].pid
    /\ ~has_metadata_changed(d.last[1], d.meta[1])

\* no step of start() or stop() writes the state
RestartKeepsState ==
    [][ (\E c \in Callers : StartTest(c) \/ StartMarked(c) \/ Stop(c)) => state' = state ]_vars

\* C30 as stated: start() and stop() leave the state as the previous run
\* left it, and the first check of the new loop reports no change when the
\* process has the same pid and equal compared fields.
C30_Original ==
    /\ RestartKeepsState
    /\ [](FirstCheckSameProcess(done) => ~done.changed)

\* C30 amended: the same, the first check reporting no metadata change: it
\* leaves last_metadata, is_active and last_update as they are and invokes
\* no callback; it reports changed only when it records a new active
\* content window.
C30_RestartKeepsState ==
    /\ RestartKeepsState
    /\ [](FirstCheckSameProcess(done) =>
            /\ ~done.replaced
            /\ ~done.stamped
            /\ done.cb = 0
            /\ done.locked => /\ state.last_metadata = done.last
                              /\ state.is_active = done.wasActive
            /\ done.changed => (done.tab # None /\ state.last_active_tab = done.tab
                                  /\ done.mutated)
            /\ ~done.changed => ~done.mutated)

C30_Witness ==
    /\ FirstCheckSameProcess(done)
    /\ done.locked
    /\ done.last # done.meta
    /\ ~done.changed
    /\ AliveLoops = 1
    /\ is_running
    /\ state.is_active

====
